---- MODULE Spec2Model ----
(***************************************************************************)
(* Model of the xolotl service directory: the in-memory registry           *)
(* (src/registry/in_memory_registry.rs), the service entry                 *)
(* (src/model/service_registry.rs) and the HTTP handlers that drive the    *)
(* registry (src/api/services.rs).                                         *)
(*                                                                         *)
(* In specification Spec requests are served one at a time. A handler      *)
(* runs as one step: it takes the registry lock, performs its single       *)
(* registry call and drops the lock; its response is then in flight until  *)
(* the client has received it.                                             *)
(*                                                                         *)
(* Specification SpecApi is the registry called directly through its       *)
(* trait, SpecRw the handlers running concurrently in tasks that share the *)
(* lock, SpecRwFair the same under a scheduler that polls every ready      *)
(* task, and SpecRwCancel that with requests dropped while they wait.      *)
(* SpecPort and SpecSecure are ServiceAddress::extract_port and            *)
(* ServiceAddress::is_secure (src/model/service_address.rs) on character   *)
(* strings.                                                                *)
(***************************************************************************)
EXTENDS Integers, Sequences, FiniteSets, TLC

(* ---------------------------------------------------------------------- *)
(* Bounds and input domains                                                *)
(* ---------------------------------------------------------------------- *)

\* number of identifiers Uuid::new_v4 hands out during a run
MaxIds == 3

\* largest value the millisecond clock reaches during a run
MaxTime == 1

\* number of entries the concurrent handlers of SpecRw register during a run
MaxRwIds == 2

\* identifiers: the code only clones, hashes and compares them
Ids == 1..MaxIds

\* names the handlers are called with: a name, a longer name that has it as
\* a prefix, and the name in another case (which no instance registers)
Names == {"svc", "svc1", "SVC"}

Envs == {"dev", "prod"}

\* names and environments resolve is evaluated on: those above, a proper
\* prefix of a name, and environments never registered
QueryNames == Names \cup {"sv"}

QueryEnvs == Envs \cup {"DEV", "de"}

\* Option<T>
None == <<>>

Some(x) == <<x>>

\* the address and the tags the instance that receives identifier id
\* announces: instances announce a URL and a string that is no address at
\* all in turn, and every other one has tags, so that an instance may send
\* the very body an earlier instance has sent
Addrs == <<"http://10.0.0.1:9000", " Not An Address/ ">>

AddrOf(id) == Addrs[((id - 1) % Len(Addrs)) + 1]

\* a HashMap<String, String> is the set of its <<key, value>> pairs
TagsOf(id) == IF id % 2 = 1 THEN Some({<<"v", "1">>}) ELSE None

\* bodies of POST /services (ServiceEntryRequest, tags optional) the
\* instance that receives identifier id may send
Payloads(id) ==
    {[service_name |-> "svc", environment |-> "dev",
      address |-> AddrOf(id), tags |-> TagsOf(id)],
     [service_name |-> "svc", environment |-> "prod",
      address |-> AddrOf(id), tags |-> TagsOf(id)],
     [service_name |-> "svc1", environment |-> "dev",
      address |-> AddrOf(id), tags |-> TagsOf(id)]}

(* ---------------------------------------------------------------------- *)
(* State                                                                   *)
(* ---------------------------------------------------------------------- *)

VARIABLES
    services,   \* InMemoryRegistry.services: HashMap key -> ServiceEntry
    clock,      \* the system clock read by now(), in milliseconds
    issued,     \* the identifiers Uuid::new_v4 has produced
    pre,        \* the table as it was when the handler in last started
    last,       \* the response in flight: the handler that ran, its
                \* arguments and its result; NoOp when there is none
    removed,    \* the keys deregister has removed from the table so far
    count,      \* how many register calls returned Ok and how many entries
                \* deregister has removed so far
    tasks,      \* the handler each task of the runtime is running, and how
                \* far it has come
    queue,      \* the tasks waiting for the registry lock, oldest first
    addr,       \* the address string extract_port is called on
    port,       \* whether extract_port has been called, and what it returned
    secure      \* whether is_secure has been called, and what it returned

\* the variables of the registry and of its history
regVars == <<services, clock, issued, pre, last, removed, count>>

\* the variables the other specifications add
elsewhere == <<tasks, queue, addr, port, secure>>

vars == <<regVars, elsewhere>>

(* ---------------------------------------------------------------------- *)
(* ServiceEntry and ServiceAddress                                         *)
(* ---------------------------------------------------------------------- *)

\* a constructor that puts http:// before an address without a scheme
ServiceAddressString_with_scheme(address) ==
    [type |-> "String",
     value |-> IF address = " Not An Address/ "
               THEN "http:// Not An Address/ "
               ELSE address]

\* ServiceAddress::String(address)
ServiceAddressString(address) == [type |-> "String", value |-> address]

as_str(address) == address.value

now == clock

\* a constructor that leaves last_heartbeat at zero until a heartbeat comes
ServiceEntryNew_without_heartbeat(id, service_name, environment, address, tags) ==
    [id             |-> id,
     service_name   |-> service_name,
     environment    |-> environment,
     address        |-> ServiceAddressString(address),
     tags           |-> tags,
     registered_at  |-> now,
     last_heartbeat |-> 0]

\* ServiceEntry::new, with the identifier Uuid::new_v4 produced
ServiceEntryNew(id, service_name, environment, address, tags) ==
    LET registered_at == now
    IN  [id             |-> id,
         service_name   |-> service_name,
         environment    |-> environment,
         address        |-> ServiceAddressString(address),
         tags           |-> tags,
         registered_at  |-> registered_at,
         last_heartbeat |-> registered_at]

address_str(entry) == as_str(entry.address)

\* an identifier source that hands out the smallest identifier not stored
new_v4_unstored ==
    CHOOSE id \in Ids :
        /\ DOMAIN services # Ids => id \notin DOMAIN services
        /\ \A other \in Ids \ DOMAIN services : id <= other

\* Uuid::new_v4: an identifier never produced before; identifiers are
\* interchangeable, the model hands them out in ascending order
new_v4 == CHOOSE id \in Ids \ issued : \A other \in Ids \ issued : id <= other

\* Option::unwrap_or_default on the optional tags of a request
unwrap_or_default(opt) == IF opt = None THEN {} ELSE opt[1]

(* ---------------------------------------------------------------------- *)
(* InMemoryRegistry                                                        *)
(* ---------------------------------------------------------------------- *)

\* InMemoryRegistry::new
EmptyMap == [k \in {} |-> 0]

contains_key(map, k) == k \in DOMAIN map

\* an insert that loses the entries stored before
insert_alone(map, k, v) == [x \in {k} |-> v]

insert(map, k, v) ==
    [x \in DOMAIN map \cup {k} |-> IF x = k THEN v ELSE map[x]]

\* a remove that leaves the entry in place
remove_keeping(map, k) == map

remove(map, k) == [x \in DOMAIN map \ {k} |-> map[x]]

\* the keys of a map in the order one iteration visits them; the order of
\* a HashMap is unspecified, the model visits keys in ascending order
RECURSIVE iter(_)
iter(keys) ==
    IF keys = {} THEN <<>>
    ELSE LET k == CHOOSE x \in keys : \A y \in keys : x <= y
         IN  <<k>> \o iter(keys \ {k})

\* a list that leaves out the entry visited last
list_without_last(map) ==
    LET ks == iter(DOMAIN map)
    IN  [i \in 1..(Len(ks) - 1) |-> map[ks[i]]]

\* InMemoryRegistry::list
list(map) ==
    LET ks == iter(DOMAIN map)
    IN  [i \in 1..Len(ks) |-> map[ks[i]]]

\* lower case of the strings of the model
to_lowercase(str) ==
    CASE str = "SVC" -> "svc"
      [] str = "DEV" -> "dev"
      [] OTHER -> str

\* a filter closure that compares without regard to case
MatchesNameEnvIgnoringCase(service, service_name, environment) ==
    /\ to_lowercase(service.service_name) = to_lowercase(service_name)
    /\ to_lowercase(service.environment) = to_lowercase(environment)

\* the filter closure of resolve and of deregister with an environment
MatchesNameEnv(service, service_name, environment) ==
    service.service_name = service_name /\ service.environment = environment

\* the filter closure of deregister without an environment
MatchesName(service, service_name) == service.service_name = service_name

\* a resolve that filters by the name and leaves the environment aside
resolve_by_name(map, service_name, environment) ==
    SelectSeq(list(map), LAMBDA service : MatchesName(service, service_name))

\* InMemoryRegistry::resolve
resolve(map, service_name, environment) ==
    SelectSeq(list(map),
              LAMBDA service : MatchesNameEnv(service, service_name, environment))

\* register that inserts even when the key is present
register_replacing(map, entry) ==
    [services |-> insert(map, entry.id, entry),
     ret |-> IF contains_key(map, entry.id) THEN "AlreadyExists" ELSE "Ok"]

\* register that reports success without inserting
register_not_inserting(map, entry) ==
    IF contains_key(map, entry.id)
    THEN [services |-> map, ret |-> "AlreadyExists"]
    ELSE [services |-> map, ret |-> "Ok"]

\* register that keeps the table under a running number instead of the id
register_by_position(map, entry) ==
    LET k == Cardinality(DOMAIN map) + 1
    IN  IF contains_key(map, k)
        THEN [services |-> map, ret |-> "AlreadyExists"]
        ELSE [services |-> insert(map, k, entry), ret |-> "Ok"]

\* register that takes name and environment for the identity of an entry
register_by_name_env(map, entry) ==
    IF \E k \in DOMAIN map :
          /\ map[k].service_name = entry.service_name
          /\ map[k].environment = entry.environment
    THEN [services |-> map, ret |-> "AlreadyExists"]
    ELSE [services |-> insert(map, entry.id, entry), ret |-> "Ok"]

\* register that keeps the entry under a key other than its id
register_under_other_key(map, entry) ==
    LET k == (entry.id % MaxIds) + 1
    IN  IF contains_key(map, k)
        THEN [services |-> map, ret |-> "AlreadyExists"]
        ELSE [services |-> insert(map, k, entry), ret |-> "Ok"]

\* register of a table that holds two entries at most and fails beyond
register_bounded(map, entry) ==
    IF contains_key(map, entry.id)
    THEN [services |-> map, ret |-> "AlreadyExists"]
    ELSE IF Cardinality(DOMAIN map) >= 2
    THEN [services |-> map, ret |-> "InternalError"]
    ELSE [services |-> insert(map, entry.id, entry), ret |-> "Ok"]

\* register that takes the content of an entry for its identity
register_by_content(map, entry) ==
    IF \E k \in DOMAIN map :
          /\ map[k].service_name = entry.service_name
          /\ map[k].environment = entry.environment
          /\ map[k].address = entry.address
          /\ map[k].tags = entry.tags
    THEN [services |-> map, ret |-> "AlreadyExists"]
    ELSE [services |-> insert(map, entry.id, entry), ret |-> "Ok"]

\* InMemoryRegistry::register
register(map, entry) ==
    IF contains_key(map, entry.id)
    THEN [services |-> map, ret |-> "AlreadyExists"]
    ELSE [services |-> insert(map, entry.id, entry), ret |-> "Ok"]

\* ids_to_remove that looks at the name only, whatever the environment
ids_to_remove_ignoring_env(map, service_name, environment) ==
    {id \in DOMAIN map : MatchesName(map[id], service_name)}

\* the ids deregister collects before it removes anything
ids_to_remove(map, service_name, environment) ==
    IF environment # None
    THEN {id \in DOMAIN map :
            MatchesNameEnv(map[id], service_name, environment[1])}
    ELSE {id \in DOMAIN map : MatchesName(map[id], service_name)}

\* a removal loop that stops after the first id
remove_first_only(map, ids) ==
    IF ids = {} THEN map
    ELSE LET id == CHOOSE x \in ids : TRUE
         IN  IF contains_key(map, id) THEN remove(map, id) ELSE map

\* the removal loop of deregister
RECURSIVE remove_all(_, _)
remove_all(map, ids) ==
    IF ids = {} THEN map
    ELSE LET id == CHOOSE x \in ids : TRUE
         IN  remove_all(IF contains_key(map, id) THEN remove(map, id) ELSE map,
                        ids \ {id})

\* deregister without the check for an empty ids_to_remove
deregister_unchecked(map, service_name, environment) ==
    [services |->
        remove_all(map, ids_to_remove(map, service_name, environment)),
     ret |-> "Ok"]

\* deregister that takes a missing environment for the environment dev
deregister_default_env(map, service_name, environment) ==
    LET ids == ids_to_remove(map, service_name,
                             IF environment = None THEN Some("dev")
                             ELSE environment)
    IN  IF ids = {}
        THEN [services |-> map, ret |-> "NotFound"]
        ELSE [services |-> remove_all(map, ids), ret |-> "Ok"]

\* InMemoryRegistry::deregister
deregister(map, service_name, environment) ==
    LET ids == ids_to_remove(map, service_name, environment)
    IN  IF ids = {}
        THEN [services |-> map, ret |-> "NotFound"]
        ELSE [services |-> remove_all(map, ids), ret |-> "Ok"]

\* a heartbeat that stamps one matching entry only
heartbeat_first_only(map, service_name, environment) ==
    LET hit == {id \in DOMAIN map :
                  MatchesNameEnv(map[id], service_name, environment)}
        first == CHOOSE id \in hit : \A other \in hit : id <= other
    IN  IF hit = {}
        THEN [services |-> map, ret |-> "NotFound"]
        ELSE [services |->
                [map EXCEPT ![first] = [@ EXCEPT !.last_heartbeat = now]],
              ret |-> "Ok"]

\* a heartbeat that also renews registered_at of the matching entries
heartbeat_renewing(map, service_name, environment) ==
    LET hit == {id \in DOMAIN map :
                  MatchesNameEnv(map[id], service_name, environment)}
    IN  IF hit = {}
        THEN [services |-> map, ret |-> "NotFound"]
        ELSE [services |->
                [id \in DOMAIN map |->
                    IF id \in hit
                    THEN [map[id] EXCEPT !.last_heartbeat = now,
                                         !.registered_at = now]
                    ELSE map[id]],
              ret |-> "Ok"]

\* a heartbeat that stamps the matching entries with the zero timestamp
heartbeat_zero_stamp(map, service_name, environment) ==
    LET hit == {id \in DOMAIN map :
                  MatchesNameEnv(map[id], service_name, environment)}
    IN  IF hit = {}
        THEN [services |-> map, ret |-> "NotFound"]
        ELSE [services |->
                [id \in DOMAIN map |->
                    IF id \in hit
                    THEN [map[id] EXCEPT !.last_heartbeat = 0]
                    ELSE map[id]],
              ret |-> "Ok"]

\* ServiceRegistry::heartbeat for the in-memory registry
heartbeat(map, service_name, environment) ==
    LET hit == {id \in DOMAIN map :
                  MatchesNameEnv(map[id], service_name, environment)}
    IN  IF hit = {}
        THEN [services |-> map, ret |-> "NotFound"]
        ELSE [services |->
                [id \in DOMAIN map |->
                    IF id \in hit
                    THEN [map[id] EXCEPT !.last_heartbeat = now]
                    ELSE map[id]],
              ret |-> "Ok"]

(* ---------------------------------------------------------------------- *)
(* Handlers                                                                *)
(* ---------------------------------------------------------------------- *)

\* the record kept of the operation that ran last; body is the JSON array
\* of the response, empty unless the handler fills it
Op(op, service_name, environment, entry, ret, status) ==
    [op |-> op, service_name |-> service_name, environment |-> environment,
     entry |-> entry, ret |-> ret, status |-> status, body |-> <<>>]

NoOp == Op("none", "", None, None, "Ok", 0)

\* no response is in flight: the next request can be served
Idle == last = NoOp

\* status of register_service
RegisterStatus(ret) ==
    IF ret = "Ok" THEN 200 ELSE IF ret = "AlreadyExists" THEN 409 ELSE 500

\* status of the deregister handlers and of register_heartbeat
NotFoundStatus(ret) ==
    IF ret = "Ok" THEN 200 ELSE IF ret = "NotFound" THEN 404 ELSE 500

\* extract_port or is_secure has not been called
NotCalled == [called |-> FALSE, value |-> None]

\* the tasks of the runtime that run handlers
Tasks == {"t1", "t2", "t3"}

\* a task that runs no handler
IdleTask == [pc |-> "idle", mode |-> "none", op |-> NoOp, todo |-> {},
             body |-> <<>>]

Init ==
    /\ services = EmptyMap
    /\ clock = 0
    /\ issued = {}
    /\ pre = EmptyMap
    /\ last = NoOp
    /\ removed = {}
    /\ count = [registered |-> 0, removed |-> 0]
    /\ tasks = [t \in Tasks |-> IdleTask]
    /\ queue = <<>>
    /\ addr = <<>>
    /\ port = NotCalled
    /\ secure = NotCalled

\* the system clock advances
Tick ==
    /\ Idle
    /\ clock < MaxTime
    /\ clock' = clock + 1
    /\ UNCHANGED <<services, issued, pre, last>>
    /\ UNCHANGED <<removed, count, elsewhere>>

\* the client receives the response in flight
Respond ==
    /\ ~Idle
    /\ last' = NoOp
    /\ pre' = services
    /\ UNCHANGED <<services, clock, issued>>
    /\ UNCHANGED <<removed, count, elsewhere>>

\* the bytes of a request body: a JSON document that deserializes into a
\* ServiceEntryRequest, or bytes that are no JSON document
JsonBody(payload) == [json |-> TRUE, value |-> payload]

MalformedBodies == {[json |-> FALSE, value |-> "invalid json"],
                    [json |-> FALSE, value |-> "{\"service_name\": "]}

\* the Json extractor of register_service: the payload, or the rejection
\* of a body that is no JSON document
from_request(body) ==
    IF body.json THEN [payload |-> Some(body.value), status |-> 200]
    ELSE [payload |-> None, status |-> 400]

\* POST /services: register_service
RegisterService ==
    /\ Idle
    /\ issued # Ids
    /\ \E body \in {JsonBody(request) : request \in Payloads(new_v4)} :
        LET payload == from_request(body).payload[1]
            id == new_v4
            entry == ServiceEntryNew(id, payload.service_name,
                                     payload.environment, payload.address,
                                     unwrap_or_default(payload.tags))
            r == register(services, entry)
        IN  /\ services' = r.services
            /\ issued' = issued \cup {id}
            /\ pre' = services
            /\ last' = Op("register", entry.service_name, Some(entry.environment),
                          Some(entry), r.ret, RegisterStatus(r.ret))
            /\ UNCHANGED clock
            /\ count' = [count EXCEPT !.registered =
                            @ + (IF r.ret = "Ok" THEN 1 ELSE 0)]
            /\ UNCHANGED <<removed, elsewhere>>

\* a register_service that answers a rejected body as an internal error
RegisterServiceRejected_as_internal(body) ==
    LET extracted == from_request(body)
    IN  /\ Idle
        /\ extracted.payload = None
        /\ pre' = services
        /\ last' = Op("none", "", None, None, "Ok", 500)
        /\ UNCHANGED <<services, clock, issued>>
        /\ UNCHANGED <<removed, count, elsewhere>>

\* POST /services with a body the Json extractor rejects: the rejection is
\* the response and the body of register_service does not run
RegisterServiceRejected(body) ==
    LET extracted == from_request(body)
    IN  /\ Idle
        /\ extracted.payload = None
        /\ pre' = services
        /\ last' = Op("none", "", None, None, "Ok", extracted.status)
        /\ UNCHANGED <<services, clock, issued>>
        /\ UNCHANGED <<removed, count, elsewhere>>

\* the value ServiceEntry::new returned for a stored entry: only
\* last_heartbeat has changed since
AsCreated(entry) == [entry EXCEPT !.last_heartbeat = entry.registered_at]

\* registry.register(entry) with the entry of an earlier
\* registry.register(entry.clone()), as a caller of the registry does; no
\* handler runs, so there is no status
RegisterEntry(entry) ==
    LET r == register(services, entry)
    IN  /\ Idle
        /\ services' = r.services
        /\ pre' = services
        /\ last' = Op("register", entry.service_name, Some(entry.environment),
                      Some(entry), r.ret, 0)
        /\ UNCHANGED <<clock, issued>>
        /\ count' = [count EXCEPT !.registered =
                        @ + (IF r.ret = "Ok" THEN 1 ELSE 0)]
        /\ UNCHANGED <<removed, elsewhere>>

\* the ServiceEntryResponse a handler builds from a stored entry
ServiceEntryResponse(internal_entry) ==
    [service_name |-> internal_entry.service_name,
     environment  |-> internal_entry.environment,
     address      |-> address_str(internal_entry),
     tags         |-> internal_entry.tags]

\* .iter().map(|internal_entry| ServiceEntryResponse {..}).collect()
Responses(found) ==
    [i \in 1..Len(found) |-> ServiceEntryResponse(found[i])]

\* a get_service without the check for an empty result
GetService_unchecked(name, environment) ==
    LET found == resolve(services, name, environment)
    IN  /\ Idle
        /\ pre' = services
        /\ last' = [Op("resolve", name, Some(environment), None, "Ok", 200)
                        EXCEPT !.body = Responses(found)]
        /\ UNCHANGED <<services, clock, issued>>
        /\ UNCHANGED <<removed, count, elsewhere>>

\* GET /services/{name}/{environment}: get_service
GetService(name, environment) ==
    LET found == resolve(services, name, environment)
    IN  /\ Idle
        /\ pre' = services
        /\ last' = IF found = <<>>
                   THEN Op("resolve", name, Some(environment), None, "Ok", 404)
                   ELSE [Op("resolve", name, Some(environment), None, "Ok", 200)
                            EXCEPT !.body = Responses(found)]
        /\ UNCHANGED <<services, clock, issued>>
        /\ UNCHANGED <<removed, count, elsewhere>>

\* a list_services that takes the entries out of the table it lists
ListServices_draining ==
    /\ Idle
    /\ pre' = services
    /\ last' = [Op("list", "", None, None, "Ok", 200)
                    EXCEPT !.body = Responses(list(services))]
    /\ services' = EmptyMap
    /\ UNCHANGED <<clock, issued>>
    /\ UNCHANGED <<removed, count, elsewhere>>

\* GET /services: list_services
ListServices ==
    /\ Idle
    /\ pre' = services
    /\ last' = [Op("list", "", None, None, "Ok", 200)
                    EXCEPT !.body = Responses(list(services))]
    /\ UNCHANGED <<services, clock, issued>>
    /\ UNCHANGED <<removed, count, elsewhere>>

\* DELETE /services/{name}: deregister_service
DeregisterService(name) ==
    LET r == deregister(services, name, None)
    IN  /\ Idle
        /\ services' = r.services
        /\ pre' = services
        /\ last' = Op("deregister", name, None, None, r.ret, NotFoundStatus(r.ret))
        /\ UNCHANGED <<clock, issued>>
        /\ removed' = removed \cup (DOMAIN services \ DOMAIN r.services)
        /\ count' = [count EXCEPT !.removed =
                        @ + Cardinality(DOMAIN services \ DOMAIN r.services)]
        /\ UNCHANGED elsewhere

\* DELETE /services/{name}/{environment}: deregister_service_in_environment
DeregisterServiceInEnvironment(name, environment) ==
    LET r == deregister(services, name, Some(environment))
    IN  /\ Idle
        /\ services' = r.services
        /\ pre' = services
        /\ last' = Op("deregister", name, Some(environment), None, r.ret,
                      NotFoundStatus(r.ret))
        /\ UNCHANGED <<clock, issued>>
        /\ removed' = removed \cup (DOMAIN services \ DOMAIN r.services)
        /\ count' = [count EXCEPT !.removed =
                        @ + Cardinality(DOMAIN services \ DOMAIN r.services)]
        /\ UNCHANGED elsewhere

\* PUT /services/heartbeat: register_heartbeat
RegisterHeartbeat(name, environment) ==
    LET r == heartbeat(services, name, environment)
    IN  /\ Idle
        /\ services' = r.services
        /\ pre' = services
        /\ last' = Op("heartbeat", name, Some(environment), None, r.ret,
                      NotFoundStatus(r.ret))
        /\ UNCHANGED <<clock, issued>>
        /\ UNCHANGED <<removed, count, elsewhere>>

Next ==
    \/ Tick
    \/ Respond
    \/ RegisterService
    \/ \E body \in MalformedBodies : RegisterServiceRejected(body)
    \/ \E id \in DOMAIN services : RegisterEntry(AsCreated(services[id]))
    \/ \E name \in Names, environment \in Envs : GetService(name, environment)
    \/ ListServices
    \/ \E name \in Names : DeregisterService(name)
    \/ \E name \in Names, environment \in Envs :
          DeregisterServiceInEnvironment(name, environment)
    \/ \E name \in Names, environment \in Envs :
          RegisterHeartbeat(name, environment)

Spec == Init /\ [][Next]_vars

\* largest number of register calls made with the entry of a removed id
MaxReuse == 1

\* the entries a caller of the registry may build with the id of an
\* earlier entry: ServiceEntry { id, ..ServiceEntry::new(..) }
KeptOf(id) ==
    {ServiceEntryNew(id, payload.service_name, payload.environment,
                     payload.address, unwrap_or_default(payload.tags)) :
     payload \in Payloads(id)}

\* the entries with the id of a removed entry such a caller may build
KeptEntries == UNION {KeptOf(id) : id \in removed}

\* registry.register(entry) with an entry that was registered and removed
RegisterAgain(entry) ==
    /\ count.registered - Cardinality(issued) < MaxReuse
    /\ entry.id \notin DOMAIN services
    /\ RegisterEntry(entry)

\* the operations that store and remove entries, and a caller that uses
\* the registry directly and registers removed ids again; the clock, the
\* reads and the heartbeats, which neither store nor remove, are left out
NextApi ==
    \/ Respond
    \/ RegisterService
    \/ \E id \in DOMAIN services : RegisterEntry(AsCreated(services[id]))
    \/ \E entry \in KeptEntries : RegisterAgain(entry)
    \/ \E name \in Names : DeregisterService(name)
    \/ \E name \in Names, environment \in Envs :
          DeregisterServiceInEnvironment(name, environment)

SpecApi == Init /\ [][NextApi]_vars

(* ---------------------------------------------------------------------- *)
(* Properties                                                              *)
(* ---------------------------------------------------------------------- *)

\* the entries a table stores
Stored(map) == {map[k] : k \in DOMAIN map}

\* the elements of a sequence
Range(seq) == {seq[i] : i \in 1..Len(seq)}

\* the keys of map whose entry has this name and this environment
KeysOf(map, name, environment) ==
    {k \in DOMAIN map :
        map[k].service_name = name /\ map[k].environment = environment}

\* the keys of map whose entry has this name
KeysNamed(map, name) == {k \in DOMAIN map : map[k].service_name = name}

\* every entry of table before is in table after, under its key, unchanged
Kept(before, after) ==
    \A k \in DOMAIN before : k \in DOMAIN after /\ after[k] = before[k]

\* the last operation was register(entry) and entry.id was stored
RegisteredStoredId ==
    /\ last.op = "register"
    /\ \E k \in DOMAIN pre : pre[k].id = last.entry[1].id

\* the last operation was register(entry) and entry.id was not stored
RegisteredNewId ==
    /\ last.op = "register"
    /\ \A k \in DOMAIN pre : pre[k].id # last.entry[1].id

\* C1: register(entry) on a registry that stores an entry with the same id
\* returns AlreadyExists and leaves the table exactly as it was.
C1_RegisterDuplicateRejected ==
    RegisteredStoredId => (last.ret = "AlreadyExists" /\ services = pre)

\* a duplicate was registered while the stored entry differed from it (a
\* heartbeat had touched it) and another entry was stored
C1_Witness ==
    /\ RegisteredStoredId
    /\ last.ret = "AlreadyExists"
    /\ last.entry[1] \notin Stored(pre)
    /\ Cardinality(DOMAIN pre) >= 2

\* C2: register(entry) with an id not stored returns Ok; afterwards list()
\* and resolve(entry.service_name, entry.environment) return the entry, and
\* every entry stored before is still stored unchanged.
C2_RegisterNewVisible ==
    RegisteredNewId =>
        LET entry == last.entry[1]
        IN  /\ last.ret = "Ok"
            /\ entry \in Range(list(services))
            /\ entry \in Range(resolve(services, entry.service_name,
                                        entry.environment))
            /\ Kept(pre, services)

\* a new entry was registered next to two stored ones
C2_Witness ==
    /\ RegisteredNewId
    /\ last.ret = "Ok"
    /\ Cardinality(DOMAIN pre) >= 2

\* C3: in every reachable state no two stored entries share the same id.
C3_UniqueIds ==
    \A k1 \in DOMAIN services, k2 \in DOMAIN services :
        k1 # k2 => services[k1].id # services[k2].id

\* a register of a stored id was attempted while several entries were stored
C3_Witness ==
    /\ RegisteredStoredId
    /\ Cardinality(DOMAIN services) >= 2

\* C4: registering an entry whose service_name and environment equal those
\* of a stored entry, under a different id, succeeds, and resolve(name, env)
\* then returns exactly the entries stored before plus the new one, with
\* the address of each: name and environment are no uniqueness key.
C4_MultipleInstances ==
    LET entry == last.entry[1]
        name == last.service_name
        env == last.environment[1]
        old == KeysOf(pre, name, env)
        found == resolve(services, name, env)
    IN  (RegisteredNewId /\ old # {}) =>
            /\ last.ret = "Ok"
            /\ Range(found) = {pre[k] : k \in old} \cup {entry}
            /\ Len(found) = Cardinality(old) + 1
            /\ {address_str(x) : x \in Range(found)} =
                  {address_str(pre[k]) : k \in old} \cup {address_str(entry)}

\* a second instance of a stored name and environment was registered with
\* another address, next to an entry of another environment
C4_Witness ==
    /\ RegisteredNewId
    /\ last.ret = "Ok"
    /\ Cardinality(KeysOf(pre, last.service_name, last.environment[1])) = 1
    /\ Len(resolve(services, last.service_name, last.environment[1])) = 2
    /\ Cardinality({address_str(x) :
                      x \in Range(resolve(services, last.service_name,
                                          last.environment[1]))}) = 2
    /\ Cardinality(DOMAIN services) = 3

\* C5: in every reachable state resolve(service_name, environment) returns
\* exactly the stored entries whose service_name and environment both equal
\* the arguments, each once, and the empty sequence when none matches.
\* (every table occurs in a state where a request can start: the state
\* after the response; resolve is evaluated there and after get_service)
C5_ResolveExact ==
    (Idle \/ last.op = "resolve") =>
        \A name \in QueryNames, env \in QueryEnvs :
            LET found == resolve(services, name, env)
            IN  /\ Range(found) =
                      {x \in Stored(services) :
                          x.service_name = name /\ x.environment = env}
                /\ \A i \in 1..Len(found), j \in 1..Len(found) :
                      i # j => found[i] # found[j]
                /\ (KeysOf(services, name, env) = {} => found = <<>>)

\* get_service found two instances of svc in dev while a third entry with
\* the longer name was stored; the other spellings resolve to nothing
C5_Witness ==
    /\ last.op = "resolve"
    /\ last.service_name = "svc"
    /\ last.environment = Some("dev")
    /\ Len(resolve(services, "svc", "dev")) = 2
    /\ Len(resolve(services, "svc1", "dev")) = 1
    /\ resolve(services, "SVC", "dev") = <<>>
    /\ resolve(services, "sv", "dev") = <<>>

\* the last operation was a successful deregister(name, Some(env))
DeregisteredInEnvironment ==
    /\ last.op = "deregister"
    /\ last.environment # None
    /\ last.ret = "Ok"

\* the last operation was a successful deregister(name, None)
DeregisteredEverywhere ==
    /\ last.op = "deregister"
    /\ last.environment = None
    /\ last.ret = "Ok"

\* C6: a successful deregister(name, Some(env)) removes exactly the stored
\* entries whose service_name is name and whose environment is env; every
\* other entry remains stored and unchanged.
C6_DeregisterScoped ==
    DeregisteredInEnvironment =>
        /\ DOMAIN services =
              DOMAIN pre \ KeysOf(pre, last.service_name, last.environment[1])
        /\ Kept(services, pre)

\* svc was removed from dev while svc in prod and svc1 in dev stayed
C6_Witness ==
    /\ DeregisteredInEnvironment
    /\ last.service_name = "svc"
    /\ last.environment = Some("dev")
    /\ KeysOf(services, "svc", "prod") # {}
    /\ KeysOf(services, "svc1", "dev") # {}

\* C7: a successful deregister(name, None) removes every stored entry whose
\* service_name is name, in all environments, and leaves every entry with
\* another service_name stored and unchanged.
C7_DeregisterAllEnvironments ==
    DeregisteredEverywhere =>
        /\ DOMAIN services = DOMAIN pre \ KeysNamed(pre, last.service_name)
        /\ Kept(services, pre)

\* svc was removed from dev and from prod while svc1 stayed
C7_Witness ==
    /\ DeregisteredEverywhere
    /\ last.service_name = "svc"
    /\ KeysOf(pre, "svc", "dev") # {}
    /\ KeysOf(pre, "svc", "prod") # {}
    /\ KeysOf(services, "svc1", "dev") # {}

\* the keys the arguments of the last deregister matched when it started
DeregisterMatched ==
    IF last.environment = None
    THEN KeysNamed(pre, last.service_name)
    ELSE KeysOf(pre, last.service_name, last.environment[1])

\* C8: deregister returns NotFound if and only if no stored entry matches
\* its arguments, and then the table is unchanged; otherwise it returns Ok
\* and at least one entry has been removed.
C8_DeregisterNoPartialFailure ==
    last.op = "deregister" =>
        /\ last.ret \in {"Ok", "NotFound"}
        /\ last.ret = "NotFound" <=> DeregisterMatched = {}
        /\ last.ret = "NotFound" => services = pre
        /\ last.ret = "Ok" =>
              /\ DOMAIN services \subseteq DOMAIN pre
              /\ DOMAIN services # DOMAIN pre

\* deregister found nothing for svc in prod while svc was stored in dev
C8_Witness ==
    /\ last.op = "deregister"
    /\ last.ret = "NotFound"
    /\ last.service_name = "svc"
    /\ last.environment = Some("prod")
    /\ KeysOf(pre, "svc", "dev") # {}

\* nothing is stored in map for name and environment: resolve returns
\* nothing and deregister(name, Some(environment)) returns NotFound
Gone(map, name, environment) ==
    /\ resolve(map, name, environment) = <<>>
    /\ deregister(map, name, Some(environment)).ret = "NotFound"

\* C9: after a successful deregister(name, Some(env)) resolve(name, env)
\* returns the empty sequence, list() contains none of the removed entries
\* and the same deregister call returns NotFound; and what is gone stays
\* gone over every operation that is not a register.
C9_RemovedInvisible ==
    /\ DeregisteredInEnvironment =>
          /\ Gone(services, last.service_name, last.environment[1])
          /\ \A k \in KeysOf(pre, last.service_name, last.environment[1]) :
                pre[k] \notin Range(list(services))
    /\ (last.op # "register" /\ services # pre) =>
          \A name \in Names, env \in Envs :
              Gone(pre, name, env) => Gone(services, name, env)

\* both instances of svc in dev were removed, other entries stayed
C9_Witness ==
    /\ DeregisteredInEnvironment
    /\ Cardinality(KeysOf(pre, last.service_name, last.environment[1])) = 2
    /\ DOMAIN services # {}

\* C10: heartbeat(name, env) sets last_heartbeat to the current timestamp
\* on every stored entry matching name and env and returns Ok when at least
\* one matches; it returns NotFound and changes nothing when none matches.
C10_Heartbeat ==
    last.op = "heartbeat" =>
        LET hit == KeysOf(pre, last.service_name, last.environment[1])
        IN  IF hit = {}
            THEN last.ret = "NotFound" /\ services = pre
            ELSE /\ last.ret = "Ok"
                 /\ \A k \in hit :
                       /\ k \in DOMAIN services
                       /\ services[k].last_heartbeat = clock

\* a heartbeat moved last_heartbeat of two matching entries forward
C10_Witness ==
    /\ last.op = "heartbeat"
    /\ last.ret = "Ok"
    /\ LET hit == KeysOf(pre, last.service_name, last.environment[1])
       IN  /\ Cardinality(hit) = 2
           /\ \A k \in hit : pre[k].last_heartbeat < services[k].last_heartbeat
    /\ DOMAIN services \ KeysOf(pre, last.service_name, last.environment[1]) # {}

Holders == {t \in Tasks : tasks[t].pc = "holding"}

Readers == {t \in Holders : tasks[t].mode = "read"}

Writers == {t \in Holders : tasks[t].mode = "write"}

\* a lock that hands out read guards while a write guard is held
CanRead_beside_writer(t) == queue # <<>> /\ Head(queue) = t

\* RwLock::read: guards are handed out in the order of arrival; a read
\* guard is handed out while no write guard is held
CanRead(t) == queue # <<>> /\ Head(queue) = t /\ Writers = {}

\* a lock that hands out a write guard while read guards are held
CanWrite_beside_readers(t) == queue # <<>> /\ Head(queue) = t /\ Writers = {}

\* a lock that hands out a write guard while another write guard is held
CanWrite_beside_writer(t) == queue # <<>> /\ Head(queue) = t /\ Readers = {}

\* RwLock::write: the write guard is handed out while no guard is held
CanWrite(t) == queue # <<>> /\ Head(queue) = t /\ Holders = {}

\* task t holds the guard and has come as far as op, todo and body say
Hold(t, op, todo, body) ==
    [tasks EXCEPT ![t] = [pc |-> "holding", mode |-> tasks[t].mode,
                          op |-> op, todo |-> todo, body |-> body]]

\* a request arrives: its handler starts in task t and waits for the lock
\* at registry.read().await or registry.write().await
Call(t, mode) ==
    /\ tasks[t].pc = "idle"
    /\ tasks' = [tasks EXCEPT ![t] = [IdleTask EXCEPT !.pc = "waiting",
                                                      !.mode = mode]]
    /\ queue' = Append(queue, t)
    /\ UNCHANGED <<regVars, addr, port, secure>>

\* a list_services that lists a registry of its own, not the shared one
list_services_own_registry(t) ==
    /\ tasks[t].pc = "waiting"
    /\ tasks[t].mode = "read"
    /\ CanRead(t)
    /\ queue' = Tail(queue)
    /\ tasks' = Hold(t, Op("list", "", None, None, "Ok", 200), {},
                     list(EmptyMap))
    /\ UNCHANGED <<regVars, addr, port, secure>>

\* GET /services: list_services takes the read guard and lists
list_services(t) ==
    /\ tasks[t].pc = "waiting"
    /\ tasks[t].mode = "read"
    /\ CanRead(t)
    /\ queue' = Tail(queue)
    /\ tasks' = Hold(t, Op("list", "", None, None, "Ok", 200), {},
                     list(services))
    /\ UNCHANGED <<regVars, addr, port, secure>>

\* GET /services/{name}/{environment}: get_service takes the read guard
\* and resolves
get_service(t, name, environment) ==
    LET found == resolve(services, name, environment)
    IN  /\ tasks[t].pc = "waiting"
        /\ tasks[t].mode = "read"
        /\ CanRead(t)
        /\ queue' = Tail(queue)
        /\ tasks' = Hold(t, Op("resolve", name, Some(environment), None, "Ok",
                               IF found = <<>> THEN 404 ELSE 200), {}, found)
        /\ UNCHANGED <<regVars, addr, port, secure>>

\* POST /services: register_service takes the write guard, creates the
\* entry and registers it
register_service(t) ==
    /\ tasks[t].pc = "waiting"
    /\ tasks[t].mode = "write"
    /\ CanWrite(t)
    /\ Cardinality(issued) < MaxRwIds
    /\ \E payload \in Payloads(new_v4) :
        LET id == new_v4
            entry == ServiceEntryNew(id, payload.service_name,
                                     payload.environment, payload.address,
                                     unwrap_or_default(payload.tags))
            r == register(services, entry)
        IN  /\ services' = r.services
            /\ issued' = issued \cup {id}
            /\ count' = [count EXCEPT !.registered =
                            @ + (IF r.ret = "Ok" THEN 1 ELSE 0)]
            /\ tasks' = Hold(t, Op("register", entry.service_name,
                                   Some(entry.environment), Some(entry),
                                   r.ret, RegisterStatus(r.ret)), {}, <<>>)
    /\ queue' = Tail(queue)
    /\ UNCHANGED <<clock, pre, last, removed, addr, port, secure>>

\* a deregister handler takes the write guard; deregister collects the
\* ids to remove and returns NotFound when there are none
Deregistering(t, name, environment) ==
    LET ids == ids_to_remove(services, name, environment)
        ret == IF ids = {} THEN "NotFound" ELSE "Ok"
    IN  /\ tasks[t].pc = "waiting"
        /\ tasks[t].mode = "write"
        /\ CanWrite(t)
        /\ queue' = Tail(queue)
        /\ tasks' = Hold(t, Op("deregister", name, environment, None, ret,
                               NotFoundStatus(ret)), ids, <<>>)
        /\ UNCHANGED <<regVars, addr, port, secure>>

\* DELETE /services/{name}: deregister_service
deregister_service(t, name) == Deregistering(t, name, None)

\* DELETE /services/{name}/{environment}: deregister_service_in_environment
deregister_service_in_environment(t, name, environment) ==
    Deregistering(t, name, Some(environment))

\* one iteration of the loop of deregister: self.services.remove(&id)
remove_next(t, id) ==
    /\ tasks[t].pc = "holding"
    /\ tasks[t].op.op = "deregister"
    /\ id \in tasks[t].todo
    /\ services' = remove(services, id)
    /\ removed' = removed \cup (DOMAIN services \ DOMAIN services')
    /\ count' = [count EXCEPT !.removed =
                    @ + Cardinality(DOMAIN services \ DOMAIN services')]
    /\ tasks' = [tasks EXCEPT ![t].todo = @ \ {id}]
    /\ UNCHANGED <<clock, issued, pre, last, queue, addr, port, secure>>

\* PUT /services/heartbeat: register_heartbeat takes the write guard;
\* heartbeat finds the matching entries
register_heartbeat(t, name, environment) ==
    LET hit == {id \in DOMAIN services :
                  MatchesNameEnv(services[id], name, environment)}
        ret == IF hit = {} THEN "NotFound" ELSE "Ok"
    IN  /\ tasks[t].pc = "waiting"
        /\ tasks[t].mode = "write"
        /\ CanWrite(t)
        /\ queue' = Tail(queue)
        /\ tasks' = Hold(t, Op("heartbeat", name, Some(environment), None, ret,
                               NotFoundStatus(ret)), hit, <<>>)
        /\ UNCHANGED <<regVars, addr, port, secure>>

\* heartbeat stamps one matching entry
stamp_next(t, id) ==
    /\ tasks[t].pc = "holding"
    /\ tasks[t].op.op = "heartbeat"
    /\ id \in tasks[t].todo
    /\ services' = [services EXCEPT ![id].last_heartbeat = now]
    /\ tasks' = [tasks EXCEPT ![t].todo = @ \ {id}]
    /\ UNCHANGED <<clock, issued, pre, last, removed, count, queue, addr, port, secure>>

\* a handler that drops its guard when the registry returned Ok and keeps
\* it when the registry returned an error
Return_on_success(t) ==
    /\ tasks[t].pc = "holding"
    /\ tasks[t].todo = {}
    /\ tasks[t].op.ret = "Ok"
    /\ tasks' = [tasks EXCEPT ![t] = IdleTask]
    /\ pre' = IF tasks[t].mode = "write" THEN services ELSE pre
    /\ UNCHANGED <<services, clock, issued, last, removed, count, queue, addr, port, secure>>

\* the handler returns and its guard is dropped; what a writer did is now
\* the table the next guard holder finds
Return(t) ==
    /\ tasks[t].pc = "holding"
    /\ tasks[t].todo = {}
    /\ tasks' = [tasks EXCEPT ![t] = IdleTask]
    /\ pre' = IF tasks[t].mode = "write" THEN services ELSE pre
    /\ UNCHANGED <<services, clock, issued, last, removed, count, queue, addr, port, secure>>

\* the name and the environment the concurrent handlers are called with
RwNames == {"svc"}

RwEnvs == {"dev"}

NextRw ==
    \/ Tick
    \/ \E t \in Tasks, mode \in {"read", "write"} : Call(t, mode)
    \/ \E t \in Tasks : list_services(t)
    \/ \E t \in Tasks, name \in RwNames, environment \in RwEnvs :
          get_service(t, name, environment)
    \/ \E t \in Tasks : register_service(t)
    \/ \E t \in Tasks, name \in RwNames : deregister_service(t, name)
    \/ \E t \in Tasks, name \in RwNames, environment \in RwEnvs :
          deregister_service_in_environment(t, name, environment)
    \/ \E t \in Tasks, id \in Ids : remove_next(t, id)
    \/ \E t \in Tasks, name \in RwNames, environment \in RwEnvs :
          register_heartbeat(t, name, environment)
    \/ \E t \in Tasks, id \in Ids : stamp_next(t, id)
    \/ \E t \in Tasks : Return(t)

SpecRw == Init /\ [][NextRw]_vars

(* ---------------------------------------------------------------------- *)
(* Properties of the concurrent handlers                                   *)
(* ---------------------------------------------------------------------- *)

\* the register handlers that have registered and not yet returned
Registering == {t \in Holders : tasks[t].op.op = "register"}

\* C12: register calls made concurrently through the lock, each with an id
\* of its own, all return Ok in every interleaving, and as long as nothing
\* was deregistered list() returns exactly the entries registered: one for
\* every call, none twice, none that was not registered.
C12_ConcurrentRegisters ==
    /\ \A t \in Registering : tasks[t].op.ret = "Ok"
    /\ removed = {} =>
          /\ Len(list(services)) = count.registered
          /\ {e.id : e \in Range(list(services))} = issued
          /\ \A t \in Registering :
                AsCreated(tasks[t].op.entry[1]) \in
                    {AsCreated(e) : e \in Range(list(services))}

\* a register handler has stored the second entry and holds the guard
\* while another writer, which arrived before it returned, and a reader
\* behind that writer wait for the lock
C12_Witness ==
    /\ removed = {}
    /\ \E t \in Registering : Cardinality(DOMAIN services) = 2
    /\ Len(queue) = 2
    /\ tasks[queue[1]].mode = "write"
    /\ tasks[queue[2]].mode = "read"

\* what a reader that holds the guard would have read from table map
ReadOf(map, op) ==
    IF op.op = "list"
    THEN list(map)
    ELSE resolve(map, op.service_name, op.environment[1])

\* the writers that have applied a part of their mutation and not the rest
Midway ==
    {t \in Writers : tasks[t].todo # {} /\ services # pre}

\* C13: every operation is atomic with respect to the others: what a
\* resolve or a list returns is what it returns on the table as the last
\* completed register, deregister or heartbeat left it, never a table on
\* which a mutation is partly applied, and no reader holds the table while
\* a mutation is partly applied.
C13_Atomic ==
    /\ \A t \in Readers : tasks[t].body = ReadOf(pre, tasks[t].op)
    /\ Midway # {} => Readers = {}

\* deregister(name, None) has removed one of the two entries of the name
\* and not yet the other, while a reader waits for the lock
C13_Witness ==
    /\ \E t \in Midway :
          /\ tasks[t].op.op = "deregister"
          /\ tasks[t].op.environment = None
          /\ Cardinality(DOMAIN pre) = 2
          /\ Cardinality(DOMAIN services) = 1
    /\ \E t \in Tasks : tasks[t].pc = "waiting" /\ tasks[t].mode = "read"

\* C14: while a handler that registers, deregisters or records a heartbeat
\* holds the table, no other handler holds it; handlers that resolve or
\* list hold it together.
C14_LockDiscipline ==
    \A t \in Writers : Holders = {t}

\* two readers hold the table at the same time while a writer waits
C14_Witness ==
    /\ Cardinality(Readers) = 2
    /\ \E t \in Tasks : tasks[t].pc = "waiting" /\ tasks[t].mode = "write"

(* ---------------------------------------------------------------------- *)
(* Further properties of the registry and of the handlers of Spec          *)
(* ---------------------------------------------------------------------- *)

\* how often value x occurs in sequence seq
Occurrences(seq, x) == Cardinality({i \in 1..Len(seq) : seq[i] = x})

\* C15: in every reachable state list() returns every stored entry exactly
\* once and nothing else: the empty sequence for an empty registry, and a
\* sequence as long as the number of register calls that returned Ok minus
\* the number of entries deregister removed.
C15_ListExact ==
    LET listed == list(services)
    IN  /\ Range(listed) = Stored(services)
        /\ \A k \in DOMAIN services : Occurrences(listed, services[k]) = 1
        /\ services = EmptyMap => listed = <<>>
        /\ Len(listed) = count.registered - count.removed

\* GET /services was served with two entries stored, after three
\* registrations and the removal of one entry
C15_Witness ==
    /\ last.op = "list"
    /\ count.registered = 3
    /\ count.removed = 1
    /\ Len(list(services)) = 2

\* entries a and b differ in nothing but last_heartbeat
SameButHeartbeat(a, b) ==
    [a EXCEPT !.last_heartbeat = b.last_heartbeat] = b

\* C16: while an entry is stored its id, service_name, environment,
\* address, tags and registered_at never change, whatever operation runs;
\* heartbeat changes last_heartbeat of the matching entries and nothing
\* else: it adds no entry, removes none and leaves the others as they were.
C16_Frame ==
    /\ \A k \in DOMAIN pre \cap DOMAIN services :
          /\ SameButHeartbeat(services[k], pre[k])
          /\ services[k].id = k
    /\ last.op = "heartbeat" =>
          /\ DOMAIN services = DOMAIN pre
          /\ \A k \in DOMAIN pre \ KeysOf(pre, last.service_name,
                                          last.environment[1]) :
                services[k] = pre[k]

\* a heartbeat changed last_heartbeat of a matching entry that has tags
\* while an entry it does not match was stored
C16_Witness ==
    /\ last.op = "heartbeat"
    /\ \E k \in KeysOf(pre, last.service_name, last.environment[1]) :
          /\ services[k] # pre[k]
          /\ services[k].tags # {}
    /\ \E k \in DOMAIN pre :
          k \notin KeysOf(pre, last.service_name, last.environment[1])

\* the last operation was a register call made by the handler of POST
\* /services, with the entry the handler created
RegisteredByHandler == last.op = "register" /\ last.status # 0

\* the last operation was a register call made directly, with an entry
\* that has the id of a removed entry
RegisteredRemovedId ==
    /\ last.op = "register"
    /\ last.status = 0
    /\ last.entry[1].id \in removed
    /\ last.entry[1].id \notin DOMAIN pre

\* C17: ServiceEntry::new never hands out an id again, so an entry that
\* POST /services creates never has the id of a stored or of a removed
\* entry; the registry itself keeps no record of removed ids: register with
\* an entry that has the id of a removed entry returns Ok and stores it.
C17_FreshIds ==
    /\ removed \subseteq issued
    /\ RegisteredByHandler =>
          /\ last.entry[1].id \notin removed
          /\ last.entry[1].id \notin DOMAIN pre
    /\ RegisteredRemovedId =>
          /\ last.ret = "Ok"
          /\ last.entry[1].id \in DOMAIN services

\* a handler registered a new entry after another entry had been removed
\* and registered again
C17_Witness ==
    /\ RegisteredByHandler
    /\ removed \cap DOMAIN pre # {}
    /\ last.ret = "Ok"

\* C17 as stated: once an entry with a given id has been removed by
\* deregister, no later state of the registry stores an entry with that id.
C17_NeverReused == removed \cap DOMAIN services = {}

\* C18: GET /services/{name}/{environment} answers 404 if and only if
\* resolve(name, environment) is empty on the table the handler reads;
\* otherwise it answers 200 with one response element for every stored
\* entry that matches; the request never changes the registry.
C18_GetService ==
    last.op = "resolve" =>
        LET name == last.service_name
            environment == last.environment[1]
            keys == KeysOf(pre, name, environment)
        IN  /\ last.status \in {200, 404}
            /\ last.status = 404 <=> resolve(pre, name, environment) = <<>>
            /\ last.status = 404 <=> keys = {}
            /\ Len(last.body) = Cardinality(keys)
            /\ \A k \in keys :
                  Occurrences(last.body, ServiceEntryResponse(pre[k])) =
                  Cardinality({j \in keys : ServiceEntryResponse(pre[j]) =
                                            ServiceEntryResponse(pre[k])})
            /\ services = pre

\* the request was answered 200 with two elements while a third entry,
\* which does not match, was stored
C18_Witness ==
    /\ last.op = "resolve"
    /\ last.status = 200
    /\ Len(last.body) = 2
    /\ Cardinality(DOMAIN services) = 3

\* the last request was a POST /services whose body the extractor rejected
BodyRejected == last.op = "none" /\ last # NoOp

\* C19: a POST /services request with a malformed JSON body is answered
\* 400 and no registry operation runs: the table, the identifiers issued
\* and the counts of the registry are as before, and the response carries
\* no error of the registry.
C19_MalformedRejected ==
    BodyRejected =>
        /\ last.status = 400
        /\ last.ret \notin {"AlreadyExists", "NotFound", "InternalError"}
        /\ last.entry = None
        /\ services = pre
        /\ Cardinality(DOMAIN services) = count.registered - count.removed
        /\ Cardinality(issued) = count.registered

\* a malformed body was rejected while two entries were stored and one
\* had been removed
C19_Witness ==
    /\ BodyRejected
    /\ Cardinality(DOMAIN services) = 2
    /\ count.removed = 1

(* ---------------------------------------------------------------------- *)
(* ServiceAddress::extract_port                                            *)
(*                                                                         *)
(* In specification SpecPort an address is a sequence of characters and    *)
(* extract_port is called on it once.                                      *)
(* ---------------------------------------------------------------------- *)

\* largest length of an address string
MaxLen == 7

\* the characters of the addresses: a letter, the separators and a digit
Chars == {"h", ":", "/", "9"}

\* the address strings of at most MaxLen characters
AddressStrings == UNION {[1..n -> Chars] : n \in 0..MaxLen}

\* index of the first occurrence of pat in s at or after position i, 0 if
\* there is none
RECURSIVE find(_, _, _)
find(s, pat, i) ==
    IF i + Len(pat) - 1 > Len(s) THEN 0
    ELSE IF SubSeq(s, i, i + Len(pat) - 1) = pat THEN i
    ELSE find(s, pat, i + 1)

\* str::contains
contains(s, pat) == find(s, pat, 1) # 0

\* str::split(pat), collected: the pieces of s between the occurrences of
\* pat, found from the left
RECURSIVE split(_, _)
split(s, pat) ==
    LET i == find(s, pat, 1)
    IN  IF i = 0 THEN <<s>>
        ELSE <<SubSeq(s, 1, i - 1)>> \o
             split(SubSeq(s, i + Len(pat), Len(s)), pat)

Digits == <<"0", "1", "2", "3", "4", "5", "6", "7", "8", "9">>

\* the number a sequence of digits denotes
RECURSIVE digits_value(_)
digits_value(s) ==
    IF s = <<>> THEN 0
    ELSE 10 * digits_value(SubSeq(s, 1, Len(s) - 1)) +
         (CHOOSE d \in 0..9 : Digits[d + 1] = s[Len(s)])

\* u16::MAX
u16_MAX == 65535

\* str::parse::<u16>().ok(): an optional '+', then digits only, at least
\* one, denoting a number up to u16::MAX
parse_u16(s) ==
    LET digits == IF s # <<>> /\ s[1] = "+" THEN Tail(s) ELSE s
    IN  IF digits = <<>> \/ \E i \in 1..Len(digits) :
                               \A d \in 1..10 : Digits[d] # digits[i]
        THEN None
        ELSE IF digits_value(digits) > u16_MAX THEN None
        ELSE Some(digits_value(digits))

\* ServiceAddress::extract_port
extract_port(address) ==
    LET addr_ == as_str(address)
    IN  IF contains(addr_, <<":", "/", "/">>)
        THEN LET parts == split(addr_, <<":", "/", "/">>)
             IN  IF Len(parts) < 2 THEN None
                 ELSE LET host_parts == split(parts[2], <<":">>)
                      IN  IF Len(host_parts) < 2 THEN None
                          ELSE parse_u16(split(host_parts[2], <<"/">>)[1])
        ELSE LET parts == split(addr_, <<":">>)
             IN  IF Len(parts) < 2 THEN None
                 ELSE parse_u16(split(parts[2], <<"/">>)[1])

\* the state after construction, with the address extract_port will be
\* called on
InitPort ==
    /\ services = EmptyMap
    /\ clock = 0
    /\ issued = {}
    /\ pre = EmptyMap
    /\ last = NoOp
    /\ removed = {}
    /\ count = [registered |-> 0, removed |-> 0]
    /\ tasks = [t \in Tasks |-> IdleTask]
    /\ queue = <<>>
    /\ addr \in AddressStrings
    /\ port = NotCalled
    /\ secure = NotCalled

\* address.extract_port()
ExtractPort ==
    /\ ~port.called
    /\ port' = [called |-> TRUE,
                value |-> extract_port(ServiceAddressString(addr))]
    /\ UNCHANGED <<regVars, tasks, queue, addr, secure>>

NextPort == ExtractPort

SpecPort == InitPort /\ [][NextPort]_vars

\* the address without its scheme, up to the first '/': host and port
Authority(s) ==
    LET i == find(s, <<":", "/", "/">>, 1)
        rest == IF i = 0 THEN s ELSE SubSeq(s, i + 3, Len(s))
    IN  split(rest, <<"/">>)[1]

\* the port the claim describes: the number after the last ':' before any
\* '/', none when there is no such ':' or what follows is no port number
PortAfterLastColon(s) ==
    LET pieces == split(Authority(s), <<":">>)
    IN  IF Len(pieces) < 2 THEN None ELSE parse_u16(pieces[Len(pieces)])

\* C20: extract_port() returns the numeric port that follows the last ':'
\* before any '/' of the address, in the scheme://host:port/path form and
\* in the host:port form, and none when there is no such port or it does
\* not parse as a port number.
C20_ExtractPort ==
    port.called => port.value = PortAfterLastColon(addr)

(* ---------------------------------------------------------------------- *)
(* ServiceAddress::is_secure                                               *)
(*                                                                         *)
(* In specification SpecSecure an address is put together from pieces of   *)
(* scheme names and separators, and is_secure is called on it once.        *)
(* ---------------------------------------------------------------------- *)

\* largest number of pieces an address is put together from
MaxPieces == 3

\* the pieces: the scheme names of the code and of its tests, one of them
\* in upper case, the separator and its parts, and single characters
Pieces ==
    {<<"h", "t", "t", "p", "s">>, <<"w", "s", "s">>, <<"f", "t", "p", "s">>,
     <<"s", "f", "t", "p">>, <<"s", "s", "h">>,
     <<"h", "t", "t", "p">>, <<"w", "s">>, <<"f", "t", "p">>,
     <<"H", "T", "T", "P", "S">>,
     <<":", "/", "/">>, <<":">>, <<"/">>, <<"s">>, <<"h">>}

\* the addresses put together from exactly n pieces
RECURSIVE Joined(_)
Joined(n) ==
    IF n = 0 THEN {<<>>}
    ELSE {head \o piece : head \in Joined(n - 1), piece \in Pieces}

SchemeStrings == UNION {Joined(n) : n \in 0..MaxPieces}

\* a starts_with that finds the pattern anywhere in the string
starts_with_anywhere(s, pat) == contains(s, pat)

\* str::starts_with
starts_with(s, pat) ==
    /\ Len(pat) <= Len(s)
    /\ \A i \in 1..Len(pat) : s[i] = pat[i]

\* ServiceAddress::is_secure
is_secure(address) ==
    LET addr_ == as_str(address)
    IN  \/ starts_with(addr_, <<"h", "t", "t", "p", "s", ":", "/", "/">>)
        \/ starts_with(addr_, <<"w", "s", "s", ":", "/", "/">>)
        \/ starts_with(addr_, <<"f", "t", "p", "s", ":", "/", "/">>)
        \/ starts_with(addr_, <<"s", "f", "t", "p", ":", "/", "/">>)
        \/ starts_with(addr_, <<"s", "s", "h", ":", "/", "/">>)

\* the state after construction, with the address is_secure will be called
\* on
InitSecure ==
    /\ services = EmptyMap
    /\ clock = 0
    /\ issued = {}
    /\ pre = EmptyMap
    /\ last = NoOp
    /\ removed = {}
    /\ count = [registered |-> 0, removed |-> 0]
    /\ tasks = [t \in Tasks |-> IdleTask]
    /\ queue = <<>>
    /\ addr \in SchemeStrings
    /\ port = NotCalled
    /\ secure = NotCalled

\* address.is_secure()
IsSecure ==
    /\ ~secure.called
    /\ secure' = [called |-> TRUE,
                  value |-> is_secure(ServiceAddressString(addr))]
    /\ UNCHANGED <<regVars, tasks, queue, addr, port>>

NextSecure == IsSecure

SpecSecure == InitSecure /\ [][NextSecure]_vars

\* what stands before the first "://" of s; no scheme when s has no "://"
SchemeOf(s) ==
    LET i == find(s, <<":", "/", "/">>, 1)
    IN  IF i = 0 THEN None ELSE Some(SubSeq(s, 1, i - 1))

SecureSchemes ==
    {<<"h", "t", "t", "p", "s">>, <<"w", "s", "s">>, <<"f", "t", "p", "s">>,
     <<"s", "f", "t", "p">>, <<"s", "s", "h">>}

InsecureSchemes ==
    {<<"h", "t", "t", "p">>, <<"w", "s">>, <<"f", "t", "p">>}

\* C21: is_secure() returns true if and only if the address begins with
\* one of https://, wss://, ftps://, sftp://, ssh://, that is if and only
\* if what stands before its first "://" is one of https, wss, ftps, sftp,
\* ssh; it returns false for http://, ws://, ftp:// and for an address
\* without a scheme.
C21_IsSecure ==
    secure.called =>
        /\ secure.value <=>
              \E scheme \in SecureSchemes :
                  \E n \in 0..Len(addr) :
                      addr = scheme \o <<":", "/", "/">> \o
                             SubSeq(addr, Len(addr) - n + 1, Len(addr))
        /\ secure.value <=>
              (SchemeOf(addr) # None /\ SchemeOf(addr)[1] \in SecureSchemes)
        /\ (SchemeOf(addr) # None /\ SchemeOf(addr)[1] \in InsecureSchemes)
              => ~secure.value
        /\ SchemeOf(addr) = None => ~secure.value

\* is_secure returned true for an address that begins with sftp:// and
\* goes on after it
C21_Witness ==
    /\ secure.called
    /\ secure.value
    /\ SchemeOf(addr) = Some(<<"s", "f", "t", "p">>)
    /\ Len(addr) > 7

(* ---------------------------------------------------------------------- *)
(* Further properties of the entries, of the registry and of the handlers  *)
(* ---------------------------------------------------------------------- *)

\* the address string given when the entry with this id was created: the
\* address of the request body, or of the entry a direct caller built
GivenAddress(id) == AddrOf(id)

\* C22: the address string supplied at registration is stored and returned
\* verbatim: for every stored entry address_str is the exact string given
\* when the entry was created, and the responses of GET /services and of
\* GET /services/{name}/{environment} carry that string for every entry
\* they report, whether or not it is an address.
C22_AddressVerbatim ==
    /\ \A k \in DOMAIN services :
          address_str(services[k]) = GivenAddress(services[k].id)
    /\ last.op = "register" =>
          address_str(last.entry[1]) = GivenAddress(last.entry[1].id)
    /\ last.op \in {"list", "resolve"} =>
          LET reported == IF last.op = "list" THEN DOMAIN pre
                          ELSE KeysOf(pre, last.service_name,
                                      last.environment[1])
          IN  /\ Len(last.body) = Cardinality(reported)
              /\ \A k \in reported :
                    \E i \in 1..Len(last.body) :
                        /\ last.body[i].service_name = pre[k].service_name
                        /\ last.body[i].environment = pre[k].environment
                        /\ last.body[i].address = GivenAddress(k)
              /\ {last.body[i].address : i \in 1..Len(last.body)} =
                    {GivenAddress(k) : k \in reported}

\* GET /services reported three entries: two registered with a URL and
\* one with a string that is no address
C22_Witness ==
    /\ last.op = "list"
    /\ Len(last.body) = 3
    /\ {last.body[i].address : i \in 1..Len(last.body)} =
          {"http://10.0.0.1:9000", " Not An Address/ "}

\* the keys a writer that holds the guard found to match when it started
MatchedAtStart(op) ==
    IF op.environment = None
    THEN KeysNamed(pre, op.service_name)
    ELSE KeysOf(pre, op.service_name, op.environment[1])

\* C23: a completed write is visible to every later operation. pre is the
\* table as the last register, deregister or heartbeat that returned left
\* it. While no writer holds the guard the table is pre; a list or resolve
\* that started later returns the entries of pre, which are the entries of
\* all registers made minus all entries removed; a deregister or heartbeat
\* that started later matches on pre, and a register that started later
\* adds its entry to pre.
C23_WritesVisible ==
    /\ Writers = {} => services = pre
    /\ \A t \in Readers :
          /\ tasks[t].body = ReadOf(services, tasks[t].op)
          /\ tasks[t].op.op = "list" =>
                /\ {e.id : e \in Range(tasks[t].body)} = issued \ removed
                /\ Len(tasks[t].body) = count.registered - count.removed
    /\ \A t \in Writers :
          LET op == tasks[t].op
          IN  /\ op.op = "deregister" =>
                    /\ tasks[t].todo \cup (DOMAIN pre \ DOMAIN services) =
                          MatchedAtStart(op)
                    /\ op.ret = "NotFound" <=> MatchedAtStart(op) = {}
              /\ op.op = "heartbeat" =>
                    /\ tasks[t].todo \subseteq MatchedAtStart(op)
                    /\ op.ret = "NotFound" <=> MatchedAtStart(op) = {}
                    /\ \A k \in DOMAIN pre \ (MatchedAtStart(op) \ tasks[t].todo) :
                          k \in DOMAIN services /\ services[k] = pre[k]
              /\ op.op = "register" =>
                    /\ Kept(pre, services)
                    /\ DOMAIN services = DOMAIN pre \cup {op.entry[1].id}

\* a list that started after a register, a deregister of that entry and a
\* second register had returned reports the second entry alone, while the
\* next writer waits
C23_Witness ==
    /\ \E t \in Readers :
          /\ tasks[t].op.op = "list"
          /\ Len(tasks[t].body) = 1
    /\ count.registered = 2
    /\ count.removed = 1
    /\ \E t \in Tasks : tasks[t].pc = "waiting" /\ tasks[t].mode = "write"

\* the handlers of DELETE /services/{name} that hold the guard
DeregisteringEverywhere ==
    {t \in Writers : tasks[t].op.op = "deregister" /\
                     tasks[t].op.environment = None}

\* C24: deregister(name, None) removes exactly the entries that matched
\* name when it obtained exclusive access. While it runs, the entries gone
\* are the matched ones it has already removed and nothing else changes:
\* no entry comes in, so a register runs wholly before it (and its entry is
\* among the matched ones if it has the name) or wholly after it; when its
\* loop is done every matched entry is gone and every other entry is as it
\* was.
C24_DeregisterSnapshot ==
    \A t \in DeregisteringEverywhere :
        LET name == tasks[t].op.service_name
            matched == KeysNamed(pre, name)
        IN  /\ tasks[t].todo \subseteq matched
            /\ DOMAIN services = DOMAIN pre \ (matched \ tasks[t].todo)
            /\ Kept(services, pre)
            /\ \A other \in Tasks \ {t} : tasks[other].pc # "holding"
            /\ tasks[t].todo = {} =>
                  /\ DOMAIN services = DOMAIN pre \ matched
                  /\ KeysNamed(services, name) = {}
                  /\ tasks[t].op.ret = "NotFound" <=> matched = {}

\* deregister(name, None) has removed both entries of the name, registered
\* in two environments, while a writer that arrived meanwhile waits
C24_Witness ==
    /\ \E t \in DeregisteringEverywhere :
          /\ tasks[t].todo = {}
          /\ Cardinality(KeysNamed(pre, tasks[t].op.service_name)) = 2
          /\ Cardinality({pre[k].environment : k \in DOMAIN pre}) = 2
          /\ services = EmptyMap
    /\ \E t \in Tasks : tasks[t].pc = "waiting" /\ tasks[t].mode = "write"

(* ---------------------------------------------------------------------- *)
(* Progress of the concurrent handlers                                     *)
(*                                                                         *)
(* Specification SpecRwFair is SpecRw without the clock, under a scheduler *)
(* that polls every task that can make a step: a task at the head of the   *)
(* queue is handed the guard when the lock allows it, a registry call goes *)
(* on with its loop, and a handler that is done returns. Requests arrive   *)
(* whenever they like.                                                     *)
(* ---------------------------------------------------------------------- *)

\* task t is woken at registry.read().await or registry.write().await and
\* its handler goes on under the guard
Acquire(t) ==
    \/ list_services(t)
    \/ \E name \in RwNames, environment \in RwEnvs :
          get_service(t, name, environment)
    \/ register_service(t)
    \/ \E name \in RwNames : deregister_service(t, name)
    \/ \E name \in RwNames, environment \in RwEnvs :
          deregister_service_in_environment(t, name, environment)
    \/ \E name \in RwNames, environment \in RwEnvs :
          register_heartbeat(t, name, environment)

\* one iteration of the loop of the registry call task t is in
Step(t) == \E id \in Ids : remove_next(t, id) \/ stamp_next(t, id)

NextRwFair ==
    \/ \E t \in Tasks, mode \in {"read", "write"} : Call(t, mode)
    \/ \E t \in Tasks : Acquire(t)
    \/ \E t \in Tasks : Step(t)
    \/ \E t \in Tasks : Return(t)

\* the runtime polls every task that is ready
Polled ==
    \A t \in Tasks :
        /\ WF_vars(Acquire(t))
        /\ WF_vars(Step(t))
        /\ WF_vars(Return(t))

SpecRwFair == Init /\ [][NextRwFair]_vars /\ Polled

\* C25: no operation blocks indefinitely: under fair scheduling every
\* handler that waits for read or write access obtains it, and every
\* handler that holds access finishes and releases it, whether the registry
\* returned Ok or an error; so the lock never deadlocks and a waiting
\* writer is not starved by readers.
C25_NoStarvation ==
    \A t \in Tasks :
        /\ (tasks[t].pc = "waiting") ~> (tasks[t].pc = "holding")
        /\ (tasks[t].pc = "holding") ~> (tasks[t].pc = "idle")

\* a writer waits at the head of the queue while two readers hold the
\* guard, one of them on its error path (404)
C25_Witness ==
    /\ Cardinality(Readers) = 2
    /\ \E t \in Readers : tasks[t].op.status = 404
    /\ queue # <<>>
    /\ tasks[Head(queue)].mode = "write"

(* ---------------------------------------------------------------------- *)
(* Dropped requests                                                        *)
(*                                                                         *)
(* A handler is a future, and a future can be dropped only where it is     *)
(* suspended. A handler has one such place, registry.read().await or       *)
(* registry.write().await: while it waits for the lock its request can be  *)
(* dropped (the client has gone), after that it runs to its return in one  *)
(* piece. Specification SpecRwCancel is SpecRwFair with such drops.        *)
(* ---------------------------------------------------------------------- *)

\* sequence seq without element x
Without(seq, x) == SelectSeq(seq, LAMBDA y : y # x)

\* a runtime that drops a handler wherever it is, under the guard as well
Cancel_under_guard(t) ==
    /\ tasks[t].pc \in {"waiting", "holding"}
    /\ tasks' = [tasks EXCEPT ![t] = IdleTask]
    /\ queue' = Without(queue, t)
    /\ UNCHANGED <<regVars, addr, port, secure>>

\* the request of task t is dropped while its handler waits for the lock:
\* the handler leaves the queue without having touched the registry
Cancel(t) ==
    /\ tasks[t].pc = "waiting"
    /\ tasks' = [tasks EXCEPT ![t] = IdleTask]
    /\ queue' = Without(queue, t)
    /\ UNCHANGED <<regVars, addr, port, secure>>

NextRwCancel ==
    \/ NextRwFair
    \/ \E t \in Tasks : Cancel(t)

SpecRwCancel == Init /\ [][NextRwCancel]_vars /\ Polled

\* C26: once a register, deregister or heartbeat handler has the write
\* guard it applies its whole mutation and then drops the guard: whenever
\* the table differs from what the last returned writer left, a writer
\* holds the guard, alone, and is at work on it; and every writer that
\* holds the guard comes to the state in which it has returned and the
\* table is the finished result. No writer is dropped in between.
C26_RunsToCompletion ==
    /\ [](services # pre => \E t \in Writers : Holders = {t})
    /\ [](\A t \in Tasks : tasks[t].pc = "idle" => tasks[t].todo = {})
    /\ \A t \in Tasks :
          (t \in Writers) ~> (tasks[t].pc = "idle" /\ services = pre)

\* deregister(name, Some(env)) has removed one of two matching entries and
\* not yet the other, while two requests that can still be dropped wait
C26_Witness ==
    /\ \E t \in Midway :
          /\ tasks[t].op.op = "deregister"
          /\ tasks[t].op.environment # None
          /\ Cardinality(tasks[t].todo) = 1
          /\ Cardinality(DOMAIN pre) = 2
    /\ Len(queue) = 2

SameBody ==
    {k \in DOMAIN pre :
        ServiceEntryResponse(pre[k]) = ServiceEntryResponse(last.entry[1])}

\* C28: every well-formed POST /services is answered 200 and adds exactly
\* one new entry, under an id that was not stored, even when its body is
\* the body of an earlier request; register returns AlreadyExists, which
\* the handler would answer with 409, only when the id of the entry is
\* already stored, which the handler's entries never are.
C28_PostAlwaysAdds ==
    /\ RegisteredByHandler =>
          LET entry == last.entry[1]
          IN  /\ last.status = 200
              /\ last.ret = "Ok"
              /\ entry.id \notin DOMAIN pre
              /\ DOMAIN services = DOMAIN pre \cup {entry.id}
              /\ Cardinality(DOMAIN services) = Cardinality(DOMAIN pre) + 1
              /\ Kept(pre, services)
              /\ services[entry.id] = entry
    /\ (last.op = "register" /\ last.ret = "AlreadyExists") =>
          /\ last.entry[1].id \in DOMAIN pre
          /\ ~RegisteredByHandler
    /\ last.status # 409

\* a POST /services with the body of an earlier request, whose entry is
\* stored, was answered 200
C28_Witness ==
    /\ RegisteredByHandler
    /\ last.status = 200
    /\ SameBody # {}
    /\ Cardinality(DOMAIN services) = 3

\* C29: the in-memory registry never returns InternalError: register
\* returns Ok or AlreadyExists and nothing else, deregister and heartbeat
\* return Ok or NotFound and nothing else, whatever ran before and whatever
\* the arguments, and so no handler answers 500.
C29_NoInternalError ==
    /\ last.ret # "InternalError"
    /\ last.op = "register" => last.ret \in {"Ok", "AlreadyExists"}
    /\ last.op \in {"deregister", "heartbeat"} =>
          last.ret \in {"Ok", "NotFound"}
    /\ last.status # 500
    /\ last.status \in {0, 200, 400, 404, 409}

\* a heartbeat for a name in an environment where it is not stored was
\* answered 404 while the table held two entries and a third had been removed
C29_Witness ==
    /\ last.op = "heartbeat"
    /\ last.ret = "NotFound"
    /\ last.status = 404
    /\ Cardinality(DOMAIN services) = 2
    /\ count.removed = 1

\* the keys under which map stores an entry that carries this id
KeysOfId(map, id) == {k \in DOMAIN map : map[k].id = id}

\* C30: in every reachable state each entry of the table is stored under
\* the key equal to its own id, so that a lookup by an id finds the entry
\* that carries the id and a removal by an id removes it and no other.
C30_KeyedById ==
    /\ \A k \in DOMAIN services : services[k].id = k
    /\ \A id \in Ids :
          /\ contains_key(services, id) <=> KeysOfId(services, id) # {}
          /\ KeysOfId(remove(services, id), id) = {}
          /\ DOMAIN remove(services, id) =
                DOMAIN services \ KeysOfId(services, id)

\* an entry was registered again under the id of a removed entry, next to
\* another stored entry, after two entries had been removed
C30_Witness ==
    /\ RegisteredRemovedId
    /\ last.ret = "Ok"
    /\ Cardinality(DOMAIN services) >= 2
    /\ Cardinality(removed) >= 2

\* what the last read would return if it were made again now
ReadAgain ==
    IF last.op = "list"
    THEN list(services)
    ELSE resolve(services, last.service_name, last.environment[1])

\* what the last read returned, as it is computed on the table it found
ReadBefore ==
    IF last.op = "list"
    THEN list(pre)
    ELSE resolve(pre, last.service_name, last.environment[1])

\* C31: resolve and list are read-only: after either, whatever its
\* arguments and whatever the table, the same keys are stored with the
\* same entries, field by field, and the same read made again returns the
\* same entries, which are the entries the response reported.
C31_ReadsChangeNothing ==
    last.op \in {"list", "resolve"} =>
        /\ DOMAIN services = DOMAIN pre
        /\ \A k \in DOMAIN pre :
              /\ services[k].id = pre[k].id
              /\ services[k].service_name = pre[k].service_name
              /\ services[k].environment = pre[k].environment
              /\ services[k].address = pre[k].address
              /\ services[k].tags = pre[k].tags
              /\ services[k].registered_at = pre[k].registered_at
              /\ services[k].last_heartbeat = pre[k].last_heartbeat
        /\ ReadAgain = ReadBefore
        /\ last.body = Responses(ReadAgain)

\* a resolve that found nothing, for a name that is stored in another
\* case, left a table of three entries, one of them touched by a heartbeat
C31_Witness ==
    /\ last.op = "resolve"
    /\ last.service_name = "SVC"
    /\ last.status = 404
    /\ Cardinality(DOMAIN services) = 3
    /\ \E k \in DOMAIN services :
          services[k].last_heartbeat > services[k].registered_at

\* the environments in which map stores an entry of this name
EnvsOf(map, name) == {map[k].environment : k \in KeysNamed(map, name)}

\* the orders in which the elements of a set can be taken
Orders(S) == {order \in [1..Cardinality(S) -> S] : Range(order) = S}

\* deregister(name, Some(env)) called for the environments of order, one
\* after the other: the table that results, and whether every call
\* returned Ok
RECURSIVE DeregisterEach(_, _, _)
DeregisterEach(map, name, order) ==
    IF order = <<>> THEN [services |-> map, ok |-> TRUE]
    ELSE LET r == deregister(map, name, Some(Head(order)))
             rest == DeregisterEach(r.services, name, Tail(order))
         IN  [services |-> rest.services, ok |-> r.ret = "Ok" /\ rest.ok]

\* C32: deregister(name, None) is deregister(name, Some(env)) over all
\* environments: on every reachable table that stores an entry of the name
\* it returns Ok and leaves the table that one deregister(name, Some(env))
\* for each environment with an entry of the name leaves, in whatever order
\* these are called, each of them returning Ok; and the table DELETE
\* /services/{name} has left is that table.
C32_DeregisterAllIsEachEnvironment ==
    /\ \A name \in Names :
          KeysNamed(services, name) # {} =>
              \A order \in Orders(EnvsOf(services, name)) :
                  /\ deregister(services, name, None).ret = "Ok"
                  /\ DeregisterEach(services, name, order).ok
                  /\ deregister(services, name, None).services =
                        DeregisterEach(services, name, order).services
    /\ DeregisteredEverywhere =>
          \A order \in Orders(EnvsOf(pre, last.service_name)) :
              services = DeregisterEach(pre, last.service_name, order).services

\* DELETE /services/{name} removed three entries of the name, stored in
\* two environments, one of them under an id that had been removed before
C32_Witness ==
    /\ DeregisteredEverywhere
    /\ Cardinality(KeysNamed(pre, last.service_name)) = 3
    /\ Cardinality(EnvsOf(pre, last.service_name)) = 2
    /\ count.removed > Cardinality(removed)

\* the pairs of a name and an environment resolve is asked for
Pairs == QueryNames \X QueryEnvs

\* C33: resolve partitions the listing: in every reachable state each
\* entry list() returns is returned by resolve for exactly one pair of a
\* name and an environment, its own (resolve returns it for its own pair,
\* once, and a pair for which resolve returns it is its own); and the
\* entries resolve returns over all pairs are together the entries list()
\* returns (each is listed, and each listed one is returned for its pair).
\* (every table occurs in a state where a request can start: the state
\* after the response; list and resolve are evaluated there and after
\* list_services)
C33_ResolvePartitionsList ==
    (Idle \/ last.op = "list") =>
        LET listed == list(services)
        IN  /\ \A i \in 1..Len(listed) :
                  /\ <<listed[i].service_name, listed[i].environment>> \in Pairs
                  /\ Occurrences(resolve(services, listed[i].service_name,
                                         listed[i].environment), listed[i]) = 1
            /\ \A pair \in Pairs :
                  LET found == resolve(services, pair[1], pair[2])
                  IN  \A i \in 1..Len(found) :
                          /\ <<found[i].service_name, found[i].environment>>
                                = pair
                          /\ found[i] \in Range(listed)

\* GET /services listed three entries that fall into two pairs of name
\* and environment, two instances in one and one in the other
C33_Witness ==
    /\ last.op = "list"
    /\ Len(list(services)) = 3
    /\ Cardinality({<<e.service_name, e.environment>> :
                      e \in Range(list(services))}) = 2

====
